---- MODULE Spec2Model ----
(***************************************************************************)
(* A model of src/src/engine.c (TinyWar's engine): the Engine singleton,   *)
(* the object / object-template / texture registries (singly linked       *)
(* lists), the object id counter, and the frame loop of engine_run.        *)
(*                                                                         *)
(* The object registry is modelled at the level of heap nodes, because     *)
(* destroy_object_by_name keeps using a node after freeing it.  A read or  *)
(* write of a freed block is undefined behaviour; every action that makes  *)
(* one has two outcomes: the block still holds its old bytes (the access   *)
(* sees the stale value), or the process crashes.  malloc never returns a  *)
(* block again, so a stale node is never overwritten by a later insert.    *)
(* The template and texture lists are never walked after a free, so they   *)
(* are modelled by the sequence of their nodes in link order.              *)
(***************************************************************************)
EXTENDS Integers, Sequences, FiniteSets, TLC

\* ---------------------------------------------------------------- bounds
MaxNodes == 3         \* object list nodes ever allocated
MaxTemplates == 3     \* object templates ever created
MaxTextures == 2      \* textures ever loaded
MaxEvents == 3        \* events ever put on SDL's queue
MaxFrames == 2        \* iterations of engine_run's loop ever started
MaxTilemaps == 2      \* tilemaps ever created
MaxFonts == 3         \* fonts ever opened

\* ------------------------------------------------------- program constants
NULL == 0

Names == {"a", "b"}

\* load_font's filename and name arguments.
FontFiles == {"f.ttf", "a"}
FontNames == {"a", "title"}

\* strlen of the strings used as names and file names.
StrLen(str) ==
  CASE str = "" -> 0
    [] str \in {"a", "b"} -> 1
    [] str \in {"f.ttf", "title"} -> 5

VARIABLES
  proc,                  \* "running" | "exited" (exit(1)) | "crashed"
  engine,                \* _engine: "null" | "live" | "freed" (dangling)
  E,                     \* the bytes of the Engine struct _engine points to
  object_id,             \* _object_id
  object_list,           \* _object_list: address of the head node, or NULL
  heap,                  \* ObjectList nodes ever allocated, by address
  object_template_list,  \* _object_template_list, nodes in link order
  template_count,        \* ObjectTemplate blocks ever allocated
  texture_list,          \* _texture_list, nodes in link order
  texture_count,         \* textures ever loaded
  font_list,             \* _font, nodes in link order
  font_count,            \* fonts ever opened
  namebuf,               \* the name copy of the last insert: bytes allocated, written
  last,                  \* the last API call: its name, arguments and result
  pc,                    \* where engine_run is: "idle" when it is not running
  cb,                    \* engine_run's arguments: is draw / event_handler non-NULL
  queue,                 \* SDL's event queue
  posted,                \* events ever put on the queue
  ticks,                 \* SDL_GetTicks(): milliseconds since SDL_Init
  frameStart,            \* engine_run's local frameStart
  frame,                 \* what the current iteration has done so far
  pace,                  \* the last iteration's work time, frameTime and SDL_Delay
  frames,                \* iterations ever started
  run,                   \* the current (or last) engine_run: flag on entry, work done
  collision,             \* the last hitbox_is_colliding call: its boxes and result
  mouse,                 \* the pointer position SDL_GetMouseState reports
  tilemaps,              \* Tilemap blocks create_tilemap allocated, by address
  tilecall,              \* the last get_tile / draw_tile_from_tilemap call
  color,                 \* _color: the tracked current draw color
  renderer_color,        \* the draw color of _engine->renderer
  drawn                  \* the color the last shape was drawn in

loopvars == <<cb, queue, posted, ticks, frameStart, frame, pace, frames, run>>

\* What the calls that need no engine read and write.
\* The renderer's draw color and what tracks it.
drawvars == <<color, renderer_color, drawn>>

extvars == <<collision, mouse, tilemaps, tilecall, drawvars>>

vars == <<proc, engine, E, object_id, object_list, heap, object_template_list,
          template_count, texture_list, texture_count, font_list, font_count,
          namebuf, last, pc, loopvars, extvars>>

registries == <<object_id, object_list, heap, object_template_list,
                template_count, texture_list, texture_count, font_list,
                font_count, namebuf>>

\* Everything the engine, the registries and the frame loop are made of.
basevars == <<proc, engine, E, registries, last, pc, loopvars>>


\* ------------------------------------------------------ inputs of the calls
\* create_object's (texture, x, y, width, height, hitbox) arguments.
ObjectArgs ==
  { [texture |-> NULL, x |-> 0, y |-> 0, width |-> 2, height |-> 1, hitbox |-> TRUE] }

\* create_object_template's (texture, width, height, hitbox) arguments.
TemplateArgs ==
  { [texture |-> NULL, width |-> 3, height |-> 2, hitbox |-> FALSE] }

\* instantiate_object's (x, y) arguments.
Positions == { [x |-> 1, y |-> 1] }

\* Positions the host program moves an object to.
MovePositions == { [x |-> 5, y |-> 7] }

\* The templates the instantiating program creates: two shapes, one name.
TemplateShapes ==
  TemplateArgs \cup { [texture |-> 1, width |-> 1, height |-> 4, hitbox |-> TRUE] }

\* ids asked for by the by-id calls: every id handed out so far, and one more.
Ids == 0..MaxNodes

\* ------------------------------------------------------------ list walking
\* The nodes reached from address a by following next (stale links included).
\* A node's next always points at a node allocated later, so this ends.
RECURSIVE Chain(_, _)
Chain(h, a) ==
  IF a = NULL THEN <<>> ELSE <<a>> \o Chain(h, h[a].next)

\* The prefix of sequence s up to and including its first element equal to x
\* (all of s when x is not in it): the nodes a search that stops at x visits.
RECURSIVE UpTo(_, _)
UpTo(s, x) ==
  IF s = <<>> THEN <<>>
  ELSE IF Head(s) = x THEN <<x>> ELSE <<Head(s)>> \o UpTo(Tail(s), x)

Range(s) == { s[i] : i \in DOMAIN s }

\* Some node among addrs has been freed: touching it is a use after free.
Freed(h, addrs) == \E a \in addrs : ~h[a].alloc

\* The registered objects: the allocated nodes reachable from the head.
RECURSIVE Live(_, _)
Live(h, s) ==
  IF s = <<>> THEN <<>>
  ELSE IF h[Head(s)].alloc THEN <<Head(s)>> \o Live(h, Tail(s)) ELSE Live(h, Tail(s))

Registered(h, head) == Live(h, Chain(h, head))

\* _add_object_to_list's walk: while (current->next != NULL) current = current->next
RECURSIVE TailNode(_, _)
TailNode(h, current) ==
  IF h[current].next = NULL THEN current ELSE TailNode(h, h[current].next)

\* _add_object_to_list(object, name): a fresh node, linked behind the tail.
AddObjectToList(h, head, object, name) ==
  LET new == Len(h) + 1
      node == [name |-> name, object |-> object, next |-> NULL, alloc |-> TRUE]
      h1 == Append(h, node)
  IN  IF head = NULL
      THEN [heap |-> h1, head |-> new]
      ELSE [heap |-> [h1 EXCEPT ![TailNode(h, head)].next = new], head |-> head]

\* malloc(sizeof(char) * strlen(name) + 1): the bytes allocated for the copy
\* of a texture, object or template name (lines 176, 446, 658).
NameAlloc(name) == 1 * StrLen(name) + 1

\* strcpy(dst, name) into a buffer of size bytes: it writes the characters of
\* name and the terminating 0.
StrCpy(size, name) == [size |-> size, written |-> StrLen(name) + 1]

\* A variant of PostIncrement that increments first: object->id = ++_object_id.
PreIncrement(counter) == [value |-> counter + 1, counter |-> counter + 1]

\* object->id = _object_id++ : the id the object gets, and the counter after.
PostIncrement(counter) == [value |-> counter, counter |-> counter + 1]

\* The loop of object_exists / get_object_by_name: the first node whose name
\* matches, or NULL.
RECURSIVE FindObjectByName(_, _, _)
FindObjectByName(h, current, name) ==
  IF current = NULL THEN NULL
  ELSE IF h[current].name = name THEN current
  ELSE FindObjectByName(h, h[current].next, name)

\* The loop of get_object_by_id / object_is_hovered_by_id.
RECURSIVE FindObjectById(_, _, _)
FindObjectById(h, current, id) ==
  IF current = NULL THEN NULL
  ELSE IF h[current].object.id = id THEN current
  ELSE FindObjectById(h, h[current].next, id)

\* The loop of destroy_object_by_id: unlink and free the first node whose
\* object has the id, then return.
RECURSIVE DestroyObjectById(_, _, _, _, _)
DestroyObjectById(h, head, current, prev, id) ==
  IF current = NULL THEN [heap |-> h, head |-> head]
  ELSE IF h[current].object.id = id
  THEN LET hd == IF prev = NULL THEN h[current].next ELSE head
           h1 == IF prev = NULL THEN h ELSE [h EXCEPT ![prev].next = h[current].next]
       IN  [heap |-> [h1 EXCEPT ![current].alloc = FALSE], head |-> hd]
  ELSE DestroyObjectById(h, head, h[current].next, current, id)

\* The loop of destroy_object_by_name, with freed blocks keeping their bytes:
\* a matching node is unlinked from prev and freed, and then the loop goes on
\* with prev = current (the freed node) and current = current->next (read
\* from the freed node).  uaf records that a freed node was read or written.
RECURSIVE DestroyObjectByName(_, _, _, _, _, _)
DestroyObjectByName(h, head, current, prev, name, uaf) ==
  IF current = NULL THEN [heap |-> h, head |-> head, uaf |-> uaf]
  ELSE IF h[current].name = name
  THEN LET hd == IF prev = NULL THEN h[current].next ELSE head
           h1 == IF prev = NULL THEN h ELSE [h EXCEPT ![prev].next = h[current].next]
           h2 == [h1 EXCEPT ![current].alloc = FALSE]
       IN  DestroyObjectByName(h2, hd, h2[current].next, current, name, TRUE)
  ELSE DestroyObjectByName(h, head, h[current].next, current, name,
                           uaf \/ ~h[current].alloc)

\* The loop of destroy_all_objects: every node on the chain is freed.
RECURSIVE DestroyAllObjects(_, _)
DestroyAllObjects(h, current) ==
  IF current = NULL THEN h
  ELSE DestroyAllObjects([h EXCEPT ![current].alloc = FALSE], h[current].next)

\* ------------------------------------------- template and texture lists
\* The loop of get_template_by_name / get_texture_by_name: the index of the
\* first node whose name matches, or 0.
RECURSIVE FindFirst(_, _, _)
FindFirst(s, i, name) ==
  IF i > Len(s) THEN 0
  ELSE IF s[i].name = name THEN i ELSE FindFirst(s, i + 1, name)

\* A variant of DestroyTemplate without the return: every match is removed.
RECURSIVE DestroyTemplateAll(_, _)
DestroyTemplateAll(s, name) ==
  IF s = <<>> THEN <<>>
  ELSE IF Head(s).name = name THEN DestroyTemplateAll(Tail(s), name)
  ELSE <<Head(s)>> \o DestroyTemplateAll(Tail(s), name)

\* The loop of destroy_object_template: the first node whose name matches is
\* unlinked and freed, and the function returns.
RECURSIVE DestroyTemplate(_, _)
DestroyTemplate(s, name) ==
  IF s = <<>> THEN <<>>
  ELSE IF Head(s).name = name THEN Tail(s)
  ELSE <<Head(s)>> \o DestroyTemplate(Tail(s), name)


\* ------------------------------------------------------------------ calls
\* An API call made by the host program, outside engine_run.
Call == proc = "running" /\ pc = "idle"

\* The call returns ret (-1 for a void function).
Return(op, name, id, ret) ==
  /\ last' = [op |-> op, name |-> name, id |-> id, ret |-> ret]
  /\ UNCHANGED <<proc, pc, loopvars, extvars>>

\* fprintf(stderr, ...); exit(1);
Exit(op, name, id) ==
  /\ last' = [op |-> op, name |-> name, id |-> id, ret |-> -1]
  /\ proc' = "exited"
  /\ UNCHANGED <<engine, E, registries, pc, loopvars, extvars>>

\* An access to a freed block brings the process down.
Crash(op, name, id) ==
  /\ last' = [op |-> op, name |-> name, id |-> id, ret |-> -1]
  /\ proc' = "crashed"
  /\ UNCHANGED <<engine, E, registries, pc, loopvars, extvars>>

\* _assert_engine_init passes: _engine != NULL (a dangling pointer is not NULL).
AssertEngineInit == engine # "null"

\* ----------------------------------------------------------------- colors
\* Color values: r, g, b, a.
Black == [r |-> 0, g |-> 0, b |-> 0, a |-> 255]

\* The color arguments of the shape calls.
Colors ==
  { Black, [r |-> 255, g |-> 0, b |-> 0, a |-> 255], [r |-> 0, g |-> 0, b |-> 0, a |-> 0] }

\* No renderer exists, or no shape has been drawn.
NoColor == [r |-> -1, g |-> -1, b |-> -1, a |-> -1]

\* ----------------------------------------------------------------- engine
\* engine_init's fps argument.
FpsValues == {0, 50, 300, 2000}

engine_init(fps) ==
  /\ Call
  /\ IF engine # "null"
     THEN Exit("engine_init", "", -1)
     ELSE \/ /\ engine' = "live"
             /\ E' = [isRunning |-> TRUE, fps |-> fps]
             /\ renderer_color' = Black  \* SDL_SetRenderDrawColor(.., 0, 0, 0, 255)
             /\ last' = [op |-> "engine_init", name |-> "", id |-> -1, ret |-> -1]
             /\ UNCHANGED <<proc, pc, loopvars, registries, collision, mouse,
                            tilemaps, tilecall, color, drawn>>
          \/ Exit("engine_init", "", -1)      \* malloc, SDL or TTF failed

engine_quit ==
  /\ Call
  /\ IF ~AssertEngineInit
     THEN Exit("engine_quit", "", -1)
     ELSE \/ /\ engine' = "freed"         \* free(_engine); _engine keeps its value
             /\ Return("engine_quit", "", -1, -1)
             /\ UNCHANGED <<E, registries>>
          \/ engine = "freed" /\ Crash("engine_quit", "", -1)   \* double free

\* ---------------------------------------------------------------- objects
create_object(op, name, a) ==
  /\ Call
  /\ Len(heap) < MaxNodes
  /\ IF ~AssertEngineInit
     THEN Exit(op, name, -1)
     ELSE \/ LET n == PostIncrement(object_id)
                 object == [id |-> n.value, texture |-> a.texture, x |-> a.x,
                            y |-> a.y, width |-> a.width, height |-> a.height,
                            hitbox |-> a.hitbox]
                 r == AddObjectToList(heap, object_list, object, name)
             IN  /\ object_id' = n.counter
                 /\ heap' = r.heap
                 /\ object_list' = r.head
                 /\ Return(op, name, object.id, Len(r.heap))
                 /\ UNCHANGED <<engine, E, object_template_list, template_count,
                                texture_list, texture_count,
                                font_list, font_count>>
                 /\ namebuf' = StrCpy(NameAlloc(name), name)
          \/ Freed(heap, Range(Chain(heap, object_list))) /\ Crash(op, name, -1)
          \/ Exit(op, name, -1)                         \* malloc failed

\* A variant of InstantiateArgs that passes the template's height for the
\* width and its width for the height.
InstantiateArgsSwapped(t, p) ==
  [texture |-> t.texture, x |-> p.x, y |-> p.y, width |-> t.height,
   height |-> t.width, hitbox |-> t.hitbox]

\* The arguments instantiate_object passes to create_object (line 517).
InstantiateArgs(t, p) ==
  [texture |-> t.texture, x |-> p.x, y |-> p.y, width |-> t.width,
   height |-> t.height, hitbox |-> t.hitbox]

\* t is the ObjectTemplate the caller's pointer refers to.
instantiate_object(t, name, p) ==
  create_object("instantiate_object", name, InstantiateArgs(t, p))

\* The host program writes object->x and object->y through the pointer that
\* create_object or instantiate_object returned for list node a.
move_object(a, p) ==
  /\ Call
  /\ a \in Range(Registered(heap, object_list))
  /\ <<heap[a].object.x, heap[a].object.y>> # <<p.x, p.y>>
  /\ heap' = [heap EXCEPT ![a].object.x = p.x, ![a].object.y = p.y]
  /\ Return("move_object", "", heap[a].object.id, a)
  /\ UNCHANGED <<engine, E, object_id, object_list, object_template_list,
                 template_count, texture_list, texture_count,
                 font_list, font_count, namebuf>>

object_exists(name) ==
  /\ Call
  /\ IF ~AssertEngineInit
     THEN Exit("object_exists", name, -1)
     ELSE LET found == FindObjectByName(heap, object_list, name)
              visited == UpTo(Chain(heap, object_list), found)
          IN  \/ /\ Return("object_exists", name, -1, IF found # NULL THEN 1 ELSE 0)
                 /\ UNCHANGED <<engine, E, registries>>
              \/ Freed(heap, Range(visited)) /\ Crash("object_exists", name, -1)

get_object_by_name(name) ==
  /\ Call
  /\ IF ~AssertEngineInit
     THEN Exit("get_object_by_name", name, -1)
     ELSE LET found == FindObjectByName(heap, object_list, name)
              visited == UpTo(Chain(heap, object_list), found)
          IN  \/ /\ found # NULL
                 /\ Return("get_object_by_name", name, -1, found)
                 /\ UNCHANGED <<engine, E, registries>>
              \/ found = NULL /\ Exit("get_object_by_name", name, -1)
              \/ Freed(heap, Range(visited)) /\ Crash("get_object_by_name", name, -1)

get_object_by_id(id) ==
  /\ Call
  /\ IF ~AssertEngineInit
     THEN Exit("get_object_by_id", "", id)
     ELSE LET found == FindObjectById(heap, object_list, id)
              visited == UpTo(Chain(heap, object_list), found)
          IN  \/ /\ found # NULL
                 /\ Return("get_object_by_id", "", id, found)
                 /\ UNCHANGED <<engine, E, registries>>
              \/ found = NULL /\ Exit("get_object_by_id", "", id)
              \/ Freed(heap, Range(visited)) /\ Crash("get_object_by_id", "", id)

destroy_object_by_id(id) ==
  /\ Call
  /\ IF ~AssertEngineInit
     THEN Exit("destroy_object_by_id", "", id)
     ELSE LET r == DestroyObjectById(heap, object_list, object_list, NULL, id)
              found == FindObjectById(heap, object_list, id)
              visited == UpTo(Chain(heap, object_list), found)
          IN  \/ /\ heap' = r.heap
                 /\ object_list' = r.head
                 /\ Return("destroy_object_by_id", "", id, -1)
                 /\ UNCHANGED <<engine, E, object_id, object_template_list,
                                template_count, texture_list, texture_count,
                                font_list, font_count, namebuf>>
              \/ Freed(heap, Range(visited)) /\ Crash("destroy_object_by_id", "", id)

destroy_object_by_name(name) ==
  /\ Call
  /\ IF ~AssertEngineInit
     THEN Exit("destroy_object_by_name", name, -1)
     ELSE LET r == DestroyObjectByName(heap, object_list, object_list, NULL, name, FALSE)
          IN  \/ /\ heap' = r.heap
                 /\ object_list' = r.head
                 /\ Return("destroy_object_by_name", name, -1, -1)
                 /\ UNCHANGED <<engine, E, object_id, object_template_list,
                                template_count, texture_list, texture_count,
                                font_list, font_count, namebuf>>
              \/ r.uaf /\ Crash("destroy_object_by_name", name, -1)

destroy_all_objects ==
  /\ Call
  /\ IF ~AssertEngineInit
     THEN Exit("destroy_all_objects", "", -1)
     ELSE \/ /\ heap' = DestroyAllObjects(heap, object_list)
             /\ object_list' = NULL
             /\ Return("destroy_all_objects", "", -1, -1)
             /\ UNCHANGED <<engine, E, object_id, object_template_list,
                            template_count, texture_list, texture_count,
                            font_list, font_count, namebuf>>
          \/ /\ Freed(heap, Range(Chain(heap, object_list)))
             /\ Crash("destroy_all_objects", "", -1)


\* -------------------------------------------------------------- templates
create_object_template(name, a) ==
  /\ Call
  /\ template_count < MaxTemplates
  /\ IF ~AssertEngineInit
     THEN Exit("create_object_template", name, -1)
     ELSE \/ LET node == [name |-> name, tmpl |-> template_count + 1,
                          texture |-> a.texture, width |-> a.width,
                          height |-> a.height, hitbox |-> a.hitbox]
             IN  /\ object_template_list' = Append(object_template_list, node)
                 /\ template_count' = template_count + 1
                 /\ Return("create_object_template", name, -1, node.tmpl)
                 /\ UNCHANGED <<engine, E, object_id, object_list, heap,
                                texture_list, texture_count,
                                font_list, font_count>>
                 /\ namebuf' = StrCpy(NameAlloc(name), name)
          \/ Exit("create_object_template", name, -1)        \* malloc failed

get_template_by_name(name) ==
  /\ Call
  /\ IF ~AssertEngineInit
     THEN Exit("get_template_by_name", name, -1)
     ELSE LET i == FindFirst(object_template_list, 1, name)
          IN  IF i = 0
              THEN Exit("get_template_by_name", name, -1)
              ELSE /\ Return("get_template_by_name", name, -1,
                             object_template_list[i].tmpl)
                   /\ UNCHANGED <<engine, E, registries>>

destroy_object_template(name) ==
  /\ Call
  /\ IF ~AssertEngineInit
     THEN Exit("destroy_object_template", name, -1)
     ELSE /\ object_template_list' = DestroyTemplate(object_template_list, name)
          /\ Return("destroy_object_template", name, -1, -1)
          /\ UNCHANGED <<engine, E, object_id, object_list, heap, template_count,
                         texture_list, texture_count,
                         font_list, font_count, namebuf>>

destroy_all_templates ==
  /\ Call
  /\ IF ~AssertEngineInit
     THEN Exit("destroy_all_templates", "", -1)
     ELSE /\ object_template_list' = <<>>
          /\ Return("destroy_all_templates", "", -1, -1)
          /\ UNCHANGED <<engine, E, object_id, object_list, heap, template_count,
                         texture_list, texture_count,
                         font_list, font_count, namebuf>>

\* --------------------------------------------------------------- textures
load_texture(name) ==
  /\ Call
  /\ texture_count < MaxTextures
  /\ IF ~AssertEngineInit
     THEN Exit("load_texture", name, -1)
     ELSE \/ LET node == [name |-> name, texture |-> texture_count + 1]
             IN  /\ texture_list' = Append(texture_list, node)
                 /\ texture_count' = texture_count + 1
                 /\ Return("load_texture", name, -1, node.texture)
                 /\ UNCHANGED <<engine, E, object_id, object_list, heap,
                                object_template_list, template_count,
                                font_list, font_count>>
                 /\ namebuf' = StrCpy(NameAlloc(name), name)
          \/ Exit("load_texture", name, -1)   \* IMG_LoadTexture or malloc failed

get_texture_by_name(name) ==
  /\ Call
  /\ IF ~AssertEngineInit
     THEN Exit("get_texture_by_name", name, -1)
     ELSE LET i == FindFirst(texture_list, 1, name)
          IN  IF i = 0
              THEN Exit("get_texture_by_name", name, -1)
              ELSE /\ Return("get_texture_by_name", name, -1, texture_list[i].texture)
                   /\ UNCHANGED <<engine, E, registries>>

destroy_all_textures ==
  /\ Call
  /\ IF ~AssertEngineInit
     THEN Exit("destroy_all_textures", "", -1)
     ELSE /\ texture_list' = <<>>
          /\ Return("destroy_all_textures", "", -1, -1)
          /\ UNCHANGED <<engine, E, object_id, object_list, heap,
                         object_template_list, template_count, texture_count,
                         font_list, font_count, namebuf>>


\* -------------------------------------------------------------- frame loop
Events == {"quit", "key", "click"}     \* SDL_QUIT and two other event types

\* The clock starts at 0 and stays far below 2^31 within MaxFrames iterations,
\* so the difference of two readings converts from Uint32 to int unchanged.

\* Milliseconds an iteration's work (events, update, draw, present) takes.
WorkTimes == {0, 3, 20, 30}

\* C's integer division, which truncates toward zero (b # 0).
CDiv(a, b) ==
  LET q == (IF a < 0 THEN -a ELSE a) \div (IF b < 0 THEN -b ELSE b)
  IN  IF (a < 0) = (b < 0) THEN q ELSE -q

\* 1000 / _engine->fps
Budget(fps) == CDiv(1000, fps)

\* What 1000 / _engine->fps can evaluate to.  Division by zero is undefined:
\* where the hardware does not trap (the process then crashes, see Pace) the
\* quotient is 0.
Budgets(fps) == IF fps # 0 THEN {Budget(fps)} ELSE {0}

\* frameTime = SDL_GetTicks() - frameStart;
FrameTime(now, start) == now - start

\* A variant of Delay that compares with <= instead of <.
DelayAtMost(frameTime, budget) ==
  IF frameTime <= budget THEN budget - frameTime ELSE -1

\* if (frameTime < budget) SDL_Delay(budget - frameTime): the argument of
\* SDL_Delay, or -1 when it is not called.
Delay(frameTime, budget) ==
  IF frameTime < budget THEN budget - frameTime ELSE -1

\* A variant of LoopCondition that never ends the loop: while (1).
LoopForever(e) == TRUE

\* while (_engine->isRunning)
LoopCondition(e) == e.isRunning

\* The steps of one iteration, in the order engine_run takes them.
NoFrame == [steps |-> <<>>, seen |-> <<>>, drained |-> <<>>, handled |-> <<>>]
NoPace == [work |-> 0, frameTime |-> 0, delay |-> -1, elapsed |-> 0]

Step(name) == frame' = [frame EXCEPT !.steps = Append(@, name)]

\* _engine is dereferenced: with a freed Engine the process may crash.
DerefCrash ==
  /\ engine = "freed"
  /\ proc' = "crashed"
  /\ UNCHANGED <<engine, E, registries, extvars, last, pc, loopvars>>

\* engine_run(update, draw, event_handler, game), up to the loop.
engine_run(draw, handler) ==
  /\ Call
  /\ IF ~AssertEngineInit
     THEN Exit("engine_run", "", -1)
     ELSE /\ pc' = "test"
          /\ cb' = [draw |-> draw, handler |-> handler]
          /\ run' = [entry |-> E.isRunning, iters |-> 0, calls |-> 0]
          /\ last' = [op |-> "engine_run", name |-> "", id |-> -1, ret |-> -1]
          /\ UNCHANGED <<proc, engine, E, registries, extvars, queue, posted, ticks,
                         frameStart, frame, pace, frames>>

\* while (_engine->isRunning) { frameStart = SDL_GetTicks(); ... }
LoopTest ==
  /\ proc = "running" /\ pc = "test"
  /\ \/ /\ LoopCondition(E)
        /\ frames < MaxFrames
        /\ frames' = frames + 1
        /\ frameStart' = ticks
        /\ frame' = [NoFrame EXCEPT !.steps = <<"start">>, !.seen = queue]
        /\ run' = [run EXCEPT !.iters = @ + 1]
        /\ pc' = "poll"
        /\ UNCHANGED <<proc, engine, E, registries, extvars, last, cb, queue, posted,
                       ticks, pace>>
     \/ /\ ~LoopCondition(E)
        /\ pc' = "idle"             \* engine_run returns: its locals are gone
        /\ frameStart' = 0
        /\ frame' = NoFrame
        /\ pace' = NoPace
        /\ UNCHANGED <<proc, engine, E, registries, extvars, last, cb, queue, posted,
                       ticks, frames, run>>
     \/ DerefCrash

\* A variant of Dispatch that asks for the handler first:
\*   if (event_handler != NULL) event_handler(_event, game);
\*   else if (_event.type == SDL_QUIT) _engine->isRunning = 0;
DispatchHandlerFirst(ev, e, f, handler) ==
  [E |-> IF ev = "quit" /\ ~handler THEN [e EXCEPT !.isRunning = FALSE] ELSE e,
   frame |-> [f EXCEPT !.drained = Append(@, ev),
                       !.handled = IF handler THEN Append(@, ev) ELSE @],
   called |-> IF handler THEN 1 ELSE 0]

\* What the drain does with an event taken from the queue:
\*   if (_event.type == SDL_QUIT) _engine->isRunning = 0;
\*   else if (event_handler != NULL) event_handler(_event, game);
Dispatch(ev, e, f, handler) ==
  [E |-> IF ev = "quit" THEN [e EXCEPT !.isRunning = FALSE] ELSE e,
   frame |-> [f EXCEPT !.drained = Append(@, ev),
                       !.handled = IF ev # "quit" /\ handler
                                   THEN Append(@, ev) ELSE @],
   called |-> IF ev # "quit" /\ handler THEN 1 ELSE 0]

\* One SDL_PollEvent(&_event) of the drain loop.  SDL_PollEvent first pumps
\* the events that have arrived from the system onto the queue (new), then
\* takes the queue's first event; with an empty queue it returns 0 and the
\* drain ends.
PollEvent ==
  /\ proc = "running" /\ pc = "poll"
  /\ \E new \in {<<>>} \cup { <<ev>> : ev \in Events } :
       /\ Len(new) + posted <= MaxEvents
       /\ posted' = posted + Len(new)
       /\ LET q == queue \o new
              f == [frame EXCEPT !.seen = @ \o new]
          IN  IF q = <<>>
              THEN /\ pc' = "update"
                   /\ frame' = [f EXCEPT !.steps = Append(@, "drained")]
                   /\ UNCHANGED <<proc, engine, E, queue, run>>
              ELSE LET d == Dispatch(Head(q), E, f, cb.handler)
                   IN  \/ /\ queue' = Tail(q)
                          /\ E' = d.E
                          /\ frame' = d.frame
                          /\ run' = [run EXCEPT !.calls = @ + d.called]
                          /\ UNCHANGED <<proc, engine, pc>>
                       \/ /\ Head(q) = "quit" /\ engine = "freed"
                          /\ proc' = "crashed"
                          /\ queue' = Tail(q)
                          /\ frame' = [f EXCEPT !.drained = Append(@, "quit")]
                          /\ UNCHANGED <<engine, E, pc, run>>
  /\ UNCHANGED <<registries, extvars, last, cb, ticks, frameStart, pace, frames>>

\* update(game);
Update ==
  /\ proc = "running" /\ pc = "update"
  /\ Step("update")
  /\ run' = [run EXCEPT !.calls = @ + 1]
  /\ pc' = "clear"
  /\ UNCHANGED <<proc, engine, E, registries, extvars, last, cb, queue, posted, ticks,
                 frameStart, pace, frames>>

\* SDL_RenderClear(_engine->renderer);
Clear ==
  /\ proc = "running" /\ pc = "clear"
  /\ \/ /\ Step("clear")
        /\ pc' = "draw"
        /\ UNCHANGED <<proc, engine, E, registries, extvars, last, cb, queue, posted,
                       ticks, frameStart, pace, frames, run>>
     \/ DerefCrash

\* A variant of Draw without the NULL check: draw(game);
DrawUnchecked ==
  /\ proc = "running" /\ pc = "draw"
  /\ Step("draw") /\ run' = [run EXCEPT !.calls = @ + 1]
  /\ pc' = "present"
  /\ UNCHANGED <<proc, engine, E, registries, extvars, last, cb, queue, posted, ticks,
                 frameStart, pace, frames>>

\* if (draw != NULL) draw(game);
Draw ==
  /\ proc = "running" /\ pc = "draw"
  /\ IF cb.draw
     THEN Step("draw") /\ run' = [run EXCEPT !.calls = @ + 1]
     ELSE UNCHANGED <<frame, run>>
  /\ pc' = "present"
  /\ UNCHANGED <<proc, engine, E, registries, extvars, last, cb, queue, posted, ticks,
                 frameStart, pace, frames>>

\* SDL_RenderPresent(_engine->renderer);
Present ==
  /\ proc = "running" /\ pc = "present"
  /\ \/ /\ Step("present")
        /\ pc' = "pace"
        /\ UNCHANGED <<proc, engine, E, registries, extvars, last, cb, queue, posted,
                       ticks, frameStart, pace, frames, run>>
     \/ DerefCrash

\* frameTime = SDL_GetTicks() - frameStart;
\* if (frameTime < 1000 / _engine->fps) SDL_Delay((1000 / _engine->fps) - frameTime);
\* work is the time the iteration has taken since frameStart was read.
Pace ==
  /\ proc = "running" /\ pc = "pace"
  /\ \/ \E work \in WorkTimes, budget \in Budgets(E.fps) :
          LET now == ticks + work
              frameTime == FrameTime(now, frameStart)
              delay == Delay(frameTime, budget)
              end == IF delay = -1 THEN now ELSE now + delay
          IN  /\ ticks' = end
              /\ pace' = [work |-> work, frameTime |-> frameTime,
                          delay |-> delay,
                          elapsed |-> end - frameStart]
              /\ Step("pace")
              /\ pc' = "test"
              /\ UNCHANGED <<proc, engine, E, registries, extvars, last, cb, queue,
                             posted, frameStart, frames, run>>
     \/ /\ E.fps = 0                              \* 1000 / 0: the process traps
        /\ proc' = "crashed"
        /\ UNCHANGED <<engine, E, registries, extvars, last, pc, loopvars>>
     \/ DerefCrash

LoopNext ==
  \/ \E draw \in BOOLEAN, handler \in BOOLEAN : engine_run(draw, handler)
  \/ LoopTest
  \/ PollEvent
  \/ Update
  \/ Clear
  \/ Draw
  \/ Present
  \/ Pace

\* ----------------------------------------------------------------- shapes
\* The shape-drawing functions (lines 823-930).
ShapeFunctions ==
  {"draw_line", "draw_rect", "draw_ellipse", "draw_circle", "draw_line_thick",
   "draw_rect_thick", "draw_circle_thick", "draw_ellipse_thick"}

\* lineRGBA(renderer, .., r, g, b, a) and the other SDL2_gfx primitives set
\* the renderer's draw color to the color they draw in.
GfxPrimitive(rc, c) == c

\* A variant of RestoreColor that leaves the renderer's draw color alone.
KeepColor(rc, tracked) == rc

\* SDL_SetRenderDrawColor(_engine->renderer, _color.r, _color.g, _color.b, _color.a)
RestoreColor(rc, tracked) == tracked

\* draw_line, draw_rect, ... (fn) called with color c: the primitives draw,
\* then the draw color is set from _color.  On a freed Engine the renderer
\* read from it is a destroyed one: SDL rejects it, or the process crashes.
draw_shape(fn, c) ==
  /\ Call
  /\ IF ~AssertEngineInit
     THEN Exit(fn, "", -1)
     ELSE \/ /\ last' = [op |-> fn, name |-> "", id |-> -1, ret |-> -1]
             /\ IF engine = "live"
                THEN /\ renderer_color' = RestoreColor(GfxPrimitive(renderer_color, c), color)
                     /\ drawn' = c
                ELSE UNCHANGED <<renderer_color, drawn>>
             /\ UNCHANGED <<proc, engine, E, registries, pc, loopvars, collision,
                            mouse, tilemaps, tilecall, color>>
          \/ engine = "freed" /\ Crash(fn, "", -1)

\* ------------------------------------------------------------------ fonts
\* malloc(sizeof(char) * strlen(filename) + 1): the bytes load_font allocates
\* for the copy of the font's name (line 995).
FontNameAlloc(filename, name) == 1 * StrLen(filename) + 1

\* load_font(filename, size, name).  When name is longer than filename, strcpy
\* writes past the end of name_alloc: the process crashes, or goes on with
\* the bytes behind the buffer overwritten.
load_font(filename, name) ==
  /\ Call
  /\ font_count < MaxFonts
  /\ IF ~AssertEngineInit
     THEN Exit("load_font", name, -1)
     ELSE LET buf == StrCpy(FontNameAlloc(filename, name), name)
              node == [name |-> name, font |-> font_count + 1]
          IN  \/ /\ font_list' = Append(font_list, node)
                 /\ font_count' = font_count + 1
                 /\ namebuf' = buf
                 /\ Return("load_font", name, -1, -1)
                 /\ UNCHANGED <<engine, E, object_id, object_list, heap,
                                object_template_list, template_count,
                                texture_list, texture_count>>
              \/ /\ buf.written > buf.size
                 /\ last' = [op |-> "load_font", name |-> name, id |-> -1, ret |-> -1]
                 /\ proc' = "crashed"
                 /\ namebuf' = buf
                 /\ UNCHANGED <<engine, E, object_id, object_list, heap,
                                object_template_list, template_count,
                                texture_list, texture_count, font_list,
                                font_count, pc, loopvars, extvars>>
              \/ Exit("load_font", name, -1)       \* TTF_OpenFont or malloc failed

\* close_font(name): the first font with the name is unlinked, closed and freed.
close_font(name) ==
  /\ Call
  /\ IF ~AssertEngineInit
     THEN Exit("close_font", name, -1)
     ELSE /\ font_list' = DestroyTemplate(font_list, name)
          /\ Return("close_font", name, -1, -1)
          /\ UNCHANGED <<engine, E, object_id, object_list, heap,
                         object_template_list, template_count, texture_list,
                         texture_count, font_count, namebuf>>

close_all_fonts ==
  /\ Call
  /\ IF ~AssertEngineInit
     THEN Exit("close_all_fonts", "", -1)
     ELSE /\ font_list' = <<>>
          /\ Return("close_all_fonts", "", -1, -1)
          /\ UNCHANGED <<engine, E, object_id, object_list, heap,
                         object_template_list, template_count, texture_list,
                         texture_count, font_count, namebuf>>

\* ------------------------------------------------------------------ hover
\* Pointer positions SDL_GetMouseState reports: inside the objects created,
\* on their far corners (2, 1) and (4, 3), and outside them.
MousePositions ==
  { [x |-> 0, y |-> 0], [x |-> 2, y |-> 1], [x |-> 3, y |-> 1], [x |-> 4, y |-> 3] }

\* The call returns ret after SDL_GetMouseState(&mouseX, &mouseY) reported m.
ReturnHover(op, id, m, ret) ==
  /\ last' = [op |-> op, name |-> "", id |-> id, ret |-> ret]
  /\ mouse' = m
  /\ UNCHANGED <<proc, engine, E, registries, pc, loopvars, collision,
                 tilemaps, tilecall, drawvars>>

\* return mouseX >= object->x && mouseX <= object->x + object->width && ... (958)
ObjectIsHovered(object, m) ==
  /\ m.x >= object.x /\ m.x <= object.x + object.width
  /\ m.y >= object.y /\ m.y <= object.y + object.height

\* object_is_hovered(object): object is the caller's pointer to the Object of
\* list node a, which is registered.
object_is_hovered(a, m) ==
  /\ Call
  /\ a \in Range(Registered(heap, object_list))
  /\ IF ~AssertEngineInit
     THEN Exit("object_is_hovered", "", a)
     ELSE ReturnHover("object_is_hovered", a, m,
                      IF ObjectIsHovered(heap[a].object, m) THEN 1 ELSE 0)

\* object_is_hovered_by_id(id)
object_is_hovered_by_id(id, m) ==
  /\ Call
  /\ IF ~AssertEngineInit
     THEN Exit("object_is_hovered_by_id", "", id)
     ELSE LET found == FindObjectById(heap, object_list, id)
              visited == UpTo(Chain(heap, object_list), found)
          IN  \/ IF found = NULL
                 THEN Return("object_is_hovered_by_id", "", id, 0)
                      /\ UNCHANGED <<engine, E, registries>>
                 ELSE ReturnHover("object_is_hovered_by_id", id, m,
                                  IF ObjectIsHovered(heap[found].object, m)
                                  THEN 1 ELSE 0)
              \/ Freed(heap, Range(visited)) /\ Crash("object_is_hovered_by_id", "", id)

\* --------------------------------------------------------------- tilemaps
\* create_tilemap's nb_rows and nb_cols arguments.
RowCounts == {0, 2}
ColCounts == {1, 2}

\* get_tile's tile_row and tile_col arguments: below, inside, at and past the
\* counts.
TileIndices == {-1, 0, 1, 2, 3}

\* The Tile get_tile fills in (lines 361-363).
NewTile(t, tile_row, tile_col) == [tilemap |-> t, row |-> tile_row, col |-> tile_col]

NoTile == [tilemap |-> NULL, row |-> 0, col |-> 0]

\* A tile call made with these arguments ends as out; tile is the Tile it
\* returns, if any.
TileCall(op, t, row, col, out, tile) ==
  tilecall' = [op |-> op, tilemap |-> t, row |-> row, col |-> col, out |-> out,
               tile |-> tile]

\* create_tilemap(filename, tile_width, tile_height, spacing, nb_rows, nb_cols)
create_tilemap(nb_rows, nb_cols) ==
  /\ Call
  /\ Len(tilemaps) < MaxTilemaps
  /\ AssertEngineInit             \* without an engine: exit(1), no tilemap
  /\ \/ /\ engine = "live"
        /\ tilemaps' = Append(tilemaps, [nb_rows |-> nb_rows, nb_cols |-> nb_cols])
        /\ UNCHANGED <<basevars, collision, mouse, tilecall, drawvars>>
     \/ /\ proc' = "exited"       \* malloc or IMG_LoadTexture failed
        /\ UNCHANGED <<engine, E, registries, last, pc, loopvars, extvars>>
     \/ /\ engine = "freed"       \* _engine->renderer read from the freed Engine
        /\ proc' = "crashed"
        /\ UNCHANGED <<engine, E, registries, last, pc, loopvars, extvars>>

\* A variant of TileOutOfBounds with > for >=.
TileBeyondBounds(tilemap, tile_row, tile_col) ==
  tile_row > tilemap.nb_rows \/ tile_col > tilemap.nb_cols

\* if (tile_row >= tilemap->nb_rows || tile_col >= tilemap->nb_cols)
TileOutOfBounds(tilemap, tile_row, tile_col) ==
  tile_row >= tilemap.nb_rows \/ tile_col >= tilemap.nb_cols

\* The process ends after a tile call: exit(1), or a crash.
TileEnd(how) ==
  /\ proc' = how
  /\ UNCHANGED <<engine, E, registries, last, pc, loopvars, collision, mouse,
                 tilemaps, drawvars>>

\* get_tile(tilemap, tile_row, tile_col): t is the address of the Tilemap.
get_tile(t, tile_row, tile_col) ==
  /\ Call
  /\ t \in DOMAIN tilemaps
  /\ IF ~AssertEngineInit
     THEN TileCall("get_tile", t, tile_row, tile_col, "no engine", NoTile) /\ TileEnd("exited")
     ELSE IF TileOutOfBounds(tilemaps[t], tile_row, tile_col)
     THEN TileCall("get_tile", t, tile_row, tile_col, "out of bounds", NoTile)
          /\ TileEnd("exited")
     ELSE \/ /\ TileCall("get_tile", t, tile_row, tile_col, "tile",
                          NewTile(t, tile_row, tile_col))
             /\ UNCHANGED <<basevars, collision, mouse, tilemaps, drawvars>>
          \/ /\ TileCall("get_tile", t, tile_row, tile_col, "no memory", NoTile)
             /\ TileEnd("exited")                         \* malloc failed

\* draw_tile_from_tilemap(tilemap, tile_row, tile_col, x, y)
draw_tile_from_tilemap(t, tile_row, tile_col) ==
  /\ Call
  /\ t \in DOMAIN tilemaps
  /\ IF ~AssertEngineInit
     THEN TileCall("draw_tile_from_tilemap", t, tile_row, tile_col, "no engine", NoTile)
          /\ TileEnd("exited")
     ELSE IF TileOutOfBounds(tilemaps[t], tile_row, tile_col)
     THEN TileCall("draw_tile_from_tilemap", t, tile_row, tile_col, "out of bounds", NoTile)
          /\ TileEnd("exited")
     ELSE \/ /\ TileCall("draw_tile_from_tilemap", t, tile_row, tile_col, "drawn", NoTile)
             /\ UNCHANGED <<basevars, collision, mouse, tilemaps, drawvars>>
          \/ /\ engine = "freed"       \* _engine->renderer read after free
             /\ TileCall("draw_tile_from_tilemap", t, tile_row, tile_col, "crash", NoTile)
             /\ TileEnd("crashed")

\* --------------------------------------------------------------- hitboxes
\* The x and y positions and the widths and heights of the boxes tried.
BoxPositions == {-1, 0, 1, 9, 10}
BoxSizes == {0, 1, 10}

\* An Object as hitbox_is_colliding reads it: x, y, width, height.
Boxes ==
  [x : BoxPositions, y : {-1, 0, 1}, width : BoxSizes, height : BoxSizes]

NoCollision == [op |-> "none"]

\* A variant of HitboxIsColliding with <= and >= for < and >.
HitboxIsTouching(hitbox1, hitbox2) ==
  /\ hitbox1.x <= hitbox2.x + hitbox2.width
  /\ hitbox1.x + hitbox1.width >= hitbox2.x
  /\ hitbox1.y <= hitbox2.y + hitbox2.height
  /\ hitbox1.y + hitbox1.height >= hitbox2.y

\* return hitbox1->x < hitbox2->x + hitbox2->width && ... (line 808)
HitboxIsColliding(hitbox1, hitbox2) ==
  /\ hitbox1.x < hitbox2.x + hitbox2.width
  /\ hitbox1.x + hitbox1.width > hitbox2.x
  /\ hitbox1.y < hitbox2.y + hitbox2.height
  /\ hitbox1.y + hitbox1.height > hitbox2.y

\* hitbox_is_colliding(hitbox1, hitbox2): no engine is needed, nothing is written.
hitbox_is_colliding(hitbox1, hitbox2) ==
  /\ Call
  /\ collision.op = "args"
  /\ collision' = [op |-> "hitbox_is_colliding", hitbox1 |-> hitbox1,
                   hitbox2 |-> hitbox2,
                   ret |-> HitboxIsColliding(hitbox1, hitbox2)]
  /\ UNCHANGED <<basevars, mouse, tilemaps, tilecall, drawvars>>

\* ------------------------------------------------------- the specification
\* The globals at program start (engine.c 3-10), no call made yet.
InitBase ==
  /\ proc = "running"
  /\ engine = "null"
  /\ E = [isRunning |-> FALSE, fps |-> 0]
  /\ object_id = 0
  /\ object_list = NULL
  /\ heap = <<>>
  /\ object_template_list = <<>>
  /\ template_count = 0
  /\ texture_list = <<>>
  /\ texture_count = 0
  /\ font_list = <<>>
  /\ font_count = 0
  /\ namebuf = [size |-> 0, written |-> 0]
  /\ last = [op |-> "none", name |-> "", id |-> -1, ret |-> -1]
  /\ pc = "idle"
  /\ cb = [draw |-> FALSE, handler |-> FALSE]
  /\ queue = <<>>
  /\ posted = 0
  /\ ticks = 0
  /\ frameStart = 0
  /\ frame = NoFrame
  /\ pace = NoPace
  /\ frames = 0
  /\ run = [entry |-> FALSE, iters |-> 0, calls |-> 0]

Init ==
  /\ InitBase
  /\ collision = NoCollision
  /\ color = Black
  /\ renderer_color = NoColor
  /\ drawn = NoColor
  /\ mouse = [x |-> 0, y |-> 0]
  /\ tilemaps = <<>>
  /\ tilecall = [op |-> "none", tilemap |-> NULL, row |-> 0, col |-> 0,
                 out |-> "none", tile |-> NoTile]

\* The host program holds two boxes it is about to test.
InitGeometry ==
  /\ InitBase
  /\ collision \in [op : {"args"}, hitbox1 : Boxes, hitbox2 : Boxes]
  /\ color = Black
  /\ renderer_color = NoColor
  /\ drawn = NoColor
  /\ mouse = [x |-> 0, y |-> 0]
  /\ tilemaps = <<>>
  /\ tilecall = [op |-> "none", tilemap |-> NULL, row |-> 0, col |-> 0,
                 out |-> "none", tile |-> NoTile]

EngineNext ==
  \/ \E fps \in FpsValues : engine_init(fps)
  \/ engine_quit

ObjectNext ==
  \/ \E name \in Names, a \in ObjectArgs : create_object("create_object", name, a)
  \/ \E t \in TemplateArgs, name \in Names, p \in Positions :
       instantiate_object(t, name, p)
  \/ \E name \in Names : object_exists(name)
  \/ \E name \in Names : get_object_by_name(name)
  \/ \E id \in Ids : get_object_by_id(id)
  \/ \E id \in Ids : destroy_object_by_id(id)
  \/ \E name \in Names : destroy_object_by_name(name)
  \/ destroy_all_objects

TemplateNext ==
  \/ \E name \in Names, a \in TemplateArgs : create_object_template(name, a)
  \/ \E name \in Names : get_template_by_name(name)
  \/ \E name \in Names : destroy_object_template(name)
  \/ destroy_all_templates

TextureNext ==
  \/ \E name \in Names : load_texture(name)
  \/ \E name \in Names : get_texture_by_name(name)
  \/ destroy_all_textures

\* The host program calling the object API, outside engine_run.
SpecObjects == Init /\ [][EngineNext \/ ObjectNext]_vars

\* The host program calling the template and texture API, outside engine_run.
SpecRegistry == Init /\ [][EngineNext \/ TemplateNext \/ TextureNext]_vars


\* The host program running the frame loop, with events arriving.
SpecLoop == Init /\ [][EngineNext \/ LoopNext]_vars

\* The same, with the loop making progress: engine_run is sequential code, the
\* callbacks return, and SDL's calls return.
SpecLoopFair == SpecLoop /\ WF_vars(LoopNext)

\* The host program testing boxes for collision.
GeometryNext ==
  hitbox_is_colliding(collision.hitbox1, collision.hitbox2)

SpecGeometry == InitGeometry /\ [][GeometryNext]_vars

\* The host program creating and destroying objects and asking whether the
\* pointer is over them.
HoverNext ==
  \/ \E name \in Names, a \in ObjectArgs : create_object("create_object", name, a)
  \/ \E t \in TemplateArgs, name \in Names, p \in Positions :
       instantiate_object(t, name, p)
  \/ \E name \in Names : destroy_object_by_name(name)
  \/ \E a \in 1..MaxNodes, m \in MousePositions : object_is_hovered(a, m)
  \/ \E id \in Ids, m \in MousePositions : object_is_hovered_by_id(id, m)

SpecHover == Init /\ [][EngineNext \/ HoverNext]_vars

\* The fields of the ObjectTemplate a template list node points to.
TemplateOf(node) ==
  [texture |-> node.texture, width |-> node.width, height |-> node.height,
   hitbox |-> node.hitbox]

\* The host program creating templates, instantiating objects from the
\* templates it registered, and moving the objects.
InstantiateNext ==
  \/ \E a \in TemplateShapes : create_object_template("a", a)
  \/ \E i \in DOMAIN object_template_list, p \in Positions :
       instantiate_object(TemplateOf(object_template_list[i]), "b", p)
  \/ \E a \in 1..MaxNodes, p \in MovePositions : move_object(a, p)

SpecInstantiate == Init /\ [][EngineNext \/ InstantiateNext]_vars

\* The host program creating tilemaps and getting and drawing tiles.
TileNext ==
  \/ \E r \in RowCounts, c \in ColCounts : create_tilemap(r, c)
  \/ \E t \in 1..MaxTilemaps, r \in TileIndices, c \in TileIndices : get_tile(t, r, c)
  \/ \E t \in 1..MaxTilemaps, r \in TileIndices, c \in TileIndices :
       draw_tile_from_tilemap(t, r, c)

SpecTiles == Init /\ [][EngineNext \/ TileNext]_vars

\* The host program loading and closing fonts.
FontNext ==
  \/ \E filename \in FontFiles, name \in FontNames : load_font(filename, name)
  \/ \E name \in FontNames : close_font(name)
  \/ close_all_fonts

SpecFonts == Init /\ [][EngineNext \/ FontNext]_vars

\* The host program drawing shapes.
DrawNext ==
  \E fn \in ShapeFunctions, c \in Colors : draw_shape(fn, c)

SpecDraw == Init /\ [][EngineNext \/ DrawNext]_vars

\* =================================================================== claims
\* The elements of s whose name is not n, in order.
Without(s, n) ==
  LET Other(e) == e.name # n IN SelectSeq(s, Other)

\* The addresses in s of nodes of heap h whose name is not n, in order.
NodesWithout(h, s, n) ==
  LET Other(a) == h[a].name # n IN SelectSeq(s, Other)

\* The addresses in s of nodes of heap h whose object's id is not id, in order.
NodesWithoutId(h, s, id) ==
  LET Other(a) == h[a].object.id # id IN SelectSeq(s, Other)

\* s without its i-th element.
RemoveAt(s, i) == SubSeq(s, 1, i - 1) \o SubSeq(s, i + 1, Len(s))

\* The index of the earliest element of s named n; 0 when there is none.
Earliest(s, n) ==
  IF \E i \in DOMAIN s : s[i].name = n
  THEN CHOOSE i \in DOMAIN s : s[i].name = n /\ \A j \in 1..(i - 1) : s[j].name # n
  ELSE 0

\* C1 (as claimed): after destroy_object_by_name(n) returns, no node named n is
\* reachable from _object_list, and the nodes with other names are reachable
\* in their original order.
C1_ByNameRemovesEveryMatch ==
  [][ (last'.op = "destroy_object_by_name" /\ proc' = "running") =>
        LET before == Chain(heap, object_list)
            after == Chain(heap', object_list')
        IN  /\ \A i \in DOMAIN after : heap'[after[i]].name # last'.name
            /\ FindObjectByName(heap', object_list', last'.name) = NULL
            /\ after = NodesWithout(heap, before, last'.name) ]_vars

C3_IdsCountCreations ==
  /\ object_id = Len(heap)
  /\ \A a \in DOMAIN heap : heap[a].object.id = a - 1
  /\ LET chain == Chain(heap, object_list)
     IN  \A i, j \in DOMAIN chain :
           i # j => heap[chain[i]].object.id # heap[chain[j]].object.id
  /\ (last.op \in {"create_object", "instantiate_object"} /\ proc = "running")
       => last.id = object_id - 1 /\ heap[last.ret].object.id = last.id

\* C3's case: an object was destroyed and objects were created afterwards,
\* the latest by instantiate_object, which got id 2.
C3_Witness ==
  /\ last.op = "instantiate_object"
  /\ proc = "running"
  /\ last.id = 2
  /\ ~heap[1].alloc
  /\ heap[2].alloc
  /\ Registered(heap, object_list) = <<2, 3>>

\* The address of the earliest registered object named n; NULL when none is.
EarliestObject(n) ==
  LET reg == Registered(heap, object_list)
      named == { i \in DOMAIN reg : heap[reg[i]].name = n }
  IN  IF named = {} THEN NULL
      ELSE reg[CHOOSE i \in named : \A j \in named : i <= j]

\* C4 (as claimed): in each registry a lookup by name returns the payload of
\* the earliest-inserted entry still registered under that name, and ends the
\* process when no registered entry has it.
C4_LookupReturnsEarliestRegistered ==
  /\ (last.op = "get_object_by_name" /\ engine # "null") =>
       IF EarliestObject(last.name) # NULL
       THEN proc = "running" /\ last.ret = EarliestObject(last.name)
       ELSE proc # "running"
  /\ (last.op = "get_template_by_name" /\ engine # "null") =>
       LET i == Earliest(object_template_list, last.name)
       IN  IF i # 0
           THEN proc = "running" /\ last.ret = object_template_list[i].tmpl
           ELSE proc # "running"
  /\ (last.op = "get_texture_by_name" /\ engine # "null") =>
       LET i == Earliest(texture_list, last.name)
       IN  IF i # 0
           THEN proc = "running" /\ last.ret = texture_list[i].texture
           ELSE proc # "running"


\* C5: the running flag only ever goes from Running to Stopped, and only in
\* the drain step that takes a quit event; engine_run returns only with the
\* flag Stopped and starts an iteration only with the flag Running; so an
\* engine_run entered with the flag Stopped starts no iteration and calls no
\* callback.
C5_RunningFlag ==
  [][ /\ (engine # "null" /\ E'.isRunning # E.isRunning) =>
           /\ E.isRunning /\ ~E'.isRunning
           /\ pc = "poll"
           /\ frame'.drained = Append(frame.drained, "quit")
      /\ (pc # "idle" /\ pc' = "idle") => ~E.isRunning
      /\ (pc = "test" /\ pc' = "poll") => E.isRunning
      /\ ~run'.entry => (run'.iters = 0 /\ run'.calls = 0) ]_vars

\* C5's case: a quit event stopped an earlier engine_run, and an engine_run
\* entered afterwards has returned without an iteration.
C5_Witness ==
  /\ proc = "running" /\ pc = "idle" /\ engine = "live"
  /\ last.op = "engine_run"
  /\ ~run.entry /\ run.iters = 0
  /\ frames >= 1

\* The events of s that are not quit events, in order.
NonQuit(s) ==
  LET Other(ev) == ev # "quit" IN SelectSeq(s, Other)

\* C6: in a drain, no quit event reaches the handler, a quit event taken from
\* the queue leaves the flag Stopped with or without a handler, the events
\* leave the queue in queue order, and the handler has been given exactly the
\* non-quit events taken so far (none when it is NULL), those behind a quit
\* event included.
C6_Drain ==
  /\ \A i \in DOMAIN frame.handled : frame.handled[i] # "quit"
  /\ frame.handled = IF cb.handler THEN NonQuit(frame.drained) ELSE <<>>
  /\ (pc # "idle") => frame.drained \o queue = frame.seen
  /\ (proc = "running" /\ \E i \in DOMAIN frame.drained : frame.drained[i] = "quit")
       => ~E.isRunning

\* C6's case: a drain with a handler took a quit event and then a key event,
\* and the handler got the key event.
C6_Witness ==
  /\ cb.handler
  /\ frame.drained = <<"click", "quit", "key">>
  /\ frame.handled = <<"click", "key">>
  /\ ~E.isRunning

\* The steps of a whole iteration.
Expected(draw) ==
  <<"start", "drained", "update", "clear">>
    \o (IF draw THEN <<"draw">> ELSE <<>>) \o <<"present", "pace">>

IsPrefix(s, t) == Len(s) <= Len(t) /\ s = SubSeq(t, 1, Len(s))

\* C7: an iteration takes its steps in the order drain, update, clear, draw
\* (only when supplied), present, pace, each at most once; update is called
\* with the event queue empty, and draw after the clear.
C7_StepOrder ==
  /\ IsPrefix(frame.steps, Expected(cb.draw))
  /\ (pc = "update") => (queue = <<>> /\ frame.steps = <<"start", "drained">>)
  /\ (pc = "clear") => frame.steps = <<"start", "drained", "update">>
  /\ (pc \in {"draw", "present", "pace"}) => queue = <<>>
  /\ (frame.steps # <<>> /\ frame.steps[Len(frame.steps)] = "pace")
       => frame.steps = Expected(cb.draw)

\* C7's case: an iteration that drained two events and had a draw callback
\* has finished.
C7_Witness ==
  /\ cb.draw
  /\ Len(frame.drained) = 2
  /\ frame.steps = Expected(TRUE)
  /\ pc = "test"

\* C8: with fps > 0, budget B = 1000 / fps and work time e, an iteration that
\* has finished asked SDL_Delay for exactly B - e when e < B and did not call
\* it when e >= B, so it lasted max(e, B) and never asked for a delay <= 0;
\* and it took every step, whatever the iteration before it took.
C8_Pacing ==
  (/\ proc = "running" /\ pc = "test" /\ E.fps > 0
   /\ frame.steps # <<>> /\ frame.steps[Len(frame.steps)] = "pace")
  => LET B == 1000 \div E.fps
         e == pace.work
     IN  /\ pace.frameTime = e
         /\ pace.delay = IF e < B THEN B - e ELSE -1
         /\ pace.delay = -1 \/ pace.delay > 0
         /\ pace.elapsed = IF e > B THEN e ELSE B
         /\ frame.steps = Expected(cb.draw)

\* C8's case: at 50 fps a second iteration, after a first one that overran
\* the budget, worked 3 ms and slept 17 ms.
C8_Witness ==
  /\ pc = "test" /\ proc = "running"
  /\ E.fps = 50
  /\ frames = 2
  /\ ticks = 50
  /\ pace = [work |-> 3, frameTime |-> 3, delay |-> 17, elapsed |-> 20]

\* C9 (as claimed): a call of any function other than engine_init made while
\* no Engine exists (before engine_init, or after engine_quit has freed it)
\* ends the process and changes no registry.
C9_NoEngineIsFatal ==
  [][ (pc = "idle" /\ engine # "live" /\ last'.op \notin {"none", "engine_init"})
        => (proc' # "running" /\ registries' = registries) ]_vars

\* C10 (as claimed): destroy_object_by_id(id) returns, having removed exactly
\* the registered object with that id (nothing when there is none); the other
\* registered objects keep their order, names and payloads, and the id counter
\* its value.
C10_ByIdRemovesExactlyOne ==
  [][ (pc = "idle" /\ engine # "null" /\ last'.op = "destroy_object_by_id") =>
        LET before == Registered(heap, object_list)
            after == Registered(heap', object_list')
        IN  /\ proc' = "running"
            /\ after = NodesWithoutId(heap, before, last'.id)
            /\ \A i \in DOMAIN after :
                 /\ heap'[after[i]].name = heap[after[i]].name
                 /\ heap'[after[i]].object = heap[after[i]].object
            /\ object_id' = object_id ]_vars


\* The unit cells a box of positive width and height covers.
Cells(box) ==
  { <<i, j>> \in (box.x .. box.x + box.width - 1) \X (box.y .. box.y + box.height - 1) :
      TRUE }

\* C11: hitbox_is_colliding(a, b) returns true exactly when a.x < b.x + b.w,
\* a.x + a.w > b.x, a.y < b.y + b.h and a.y + a.h > b.y; boxes that share only
\* an edge or a corner are not colliding, and boxes of positive size collide
\* exactly when they have a unit cell in common.
C11_CollisionIsStrictOverlap ==
  (collision.op = "hitbox_is_colliding") =>
    LET a == collision.hitbox1
        b == collision.hitbox2
    IN  /\ collision.ret = (/\ a.x < b.x + b.width  /\ a.x + a.width > b.x
                            /\ a.y < b.y + b.height /\ a.y + a.height > b.y)
        /\ (a.x + a.width = b.x \/ b.x + b.width = a.x
              \/ a.y + a.height = b.y \/ b.y + b.height = a.y) => ~collision.ret
        /\ (a.width > 0 /\ a.height > 0 /\ b.width > 0 /\ b.height > 0)
             => (collision.ret = (Cells(a) \cap Cells(b) # {}))

\* C11's case: {0,0,10,10} against {9,0,10,10}, one unit of overlap, collides.
C11_Witness ==
  /\ collision.op = "hitbox_is_colliding"
  /\ collision.hitbox1 = [x |-> 0, y |-> 0, width |-> 10, height |-> 10]
  /\ collision.hitbox2 = [x |-> 9, y |-> 0, width |-> 10, height |-> 10]
  /\ collision.ret


\* The registered nodes whose object has this id.
WithId(h, head, id) ==
  { a \in Range(Registered(h, head)) : h[a].object.id = id }

\* C12 (as claimed): object_is_hovered(o) returns true exactly when
\* o.x <= mx <= o.x + o.width and o.y <= my <= o.y + o.height;
\* object_is_hovered_by_id(id) returns that result for the registered object
\* with the id, and returns false, without ending the process, when no
\* registered object has the id.
C12_HoverIsInclusive ==
  /\ (last.op = "object_is_hovered" /\ proc = "running") =>
       LET o == heap[last.id].object
       IN  (last.ret = 1) <=> (/\ o.x <= mouse.x /\ mouse.x <= o.x + o.width
                               /\ o.y <= mouse.y /\ mouse.y <= o.y + o.height)
  /\ (last.op = "object_is_hovered_by_id" /\ engine # "null") =>
       /\ proc = "running"
       /\ \A a \in WithId(heap, object_list, last.id) :
            LET o == heap[a].object
            IN  (last.ret = 1) <=> (/\ o.x <= mouse.x /\ mouse.x <= o.x + o.width
                                    /\ o.y <= mouse.y /\ mouse.y <= o.y + o.height)
       /\ (WithId(heap, object_list, last.id) = {}) => last.ret = 0


\* C13: an instantiate_object(t, name, x, y) call that returns has registered
\* one new object, behind the others, with t's texture, width, height and
\* hitbox flag at position (x, y), and has left the template registry and
\* every other object as they were; a write to one object's position changes
\* no template and no other object.
C13_InstancesAreCopies ==
  [][ /\ \A i \in DOMAIN object_template_list, p \in Positions :
           (/\ instantiate_object(TemplateOf(object_template_list[i]), "b", p)
            /\ proc' = "running")
           => LET t == object_template_list[i]
                  new == last'.ret
                  o == heap'[new].object
              IN  /\ new \notin DOMAIN heap
                  /\ Registered(heap', object_list')
                       = Append(Registered(heap, object_list), new)
                  /\ heap'[new].name = "b"
                  /\ o.texture = t.texture /\ o.width = t.width
                  /\ o.height = t.height /\ o.hitbox = t.hitbox
                  /\ o.x = p.x /\ o.y = p.y
                  /\ object_template_list' = object_template_list
                  /\ \A a \in DOMAIN heap : heap'[a].object = heap[a].object
      /\ (last'.op = "move_object" /\ last' # last) =>
           /\ object_template_list' = object_template_list
           /\ \A a \in DOMAIN heap \ {last'.ret} : heap'[a] = heap[a] ]_vars

\* C13's case: two objects instantiated from the first of two different
\* templates, the first object moved, the second still where it was created.
C13_Witness ==
  /\ proc = "running" /\ last.op = "move_object" /\ last.ret = 1
  /\ Len(object_template_list) = 2
  /\ TemplateOf(object_template_list[1]) # TemplateOf(object_template_list[2])
  /\ Len(heap) = 2
  /\ heap[1].object.width = object_template_list[1].width
  /\ heap[2].object.width = object_template_list[1].width
  /\ heap[1].object.x = 5 /\ heap[2].object.x = 1


\* C14: while the engine exists, get_tile(tilemap, row, col) and
\* draw_tile_from_tilemap end the process with "Tile out of bounds" exactly
\* when row >= nb_rows or col >= nb_cols (so row = nb_rows fails); for every
\* other pair, negative indices included, draw_tile_from_tilemap returns and
\* get_tile, once its Tile is allocated, returns a tile with that row, that
\* col and that tilemap.
C14_TileBounds ==
  [][ \A t \in 1..MaxTilemaps, row \in TileIndices, col \in TileIndices :
        (engine = "live" /\ t \in DOMAIN tilemaps) =>
          LET out == row >= tilemaps[t].nb_rows \/ col >= tilemaps[t].nb_cols
          IN  /\ get_tile(t, row, col) =>
                   IF out
                   THEN proc' = "exited" /\ tilecall'.out = "out of bounds"
                   ELSE \/ /\ proc' = "running" /\ tilecall'.out = "tile"
                           /\ tilecall'.tile = [tilemap |-> t, row |-> row, col |-> col]
                        \/ proc' = "exited" /\ tilecall'.out = "no memory"
              /\ draw_tile_from_tilemap(t, row, col) =>
                   IF out
                   THEN proc' = "exited" /\ tilecall'.out = "out of bounds"
                   ELSE proc' = "running" /\ tilecall'.out = "drawn" ]_vars

\* C14's case: get_tile with row = nb_rows = 2 and a column in range has ended
\* the process.
C14_Witness ==
  /\ tilecall.op = "get_tile"
  /\ tilemaps[tilecall.tilemap].nb_rows = 2
  /\ tilecall.row = 2 /\ tilecall.col = 0
  /\ tilecall.out = "out of bounds" /\ proc = "exited"


\* C15 (as claimed): destroy_all_objects, destroy_all_textures,
\* destroy_all_templates and close_all_fonts each return with their registry
\* empty, whatever it held (nothing included), and with the other three
\* registries and the id counter as they were.
C15_DestroyAllEmptiesOneRegistry ==
  [][ (pc = "idle" /\ engine # "null"
       /\ last'.op \in {"destroy_all_objects", "destroy_all_textures",
                        "destroy_all_templates", "close_all_fonts"}) =>
        LET objects == Registered(heap, object_list)
            objects1 == Registered(heap', object_list')
        IN  /\ proc' = "running"
            /\ object_id' = object_id
            /\ IF last'.op = "destroy_all_objects"
               THEN objects1 = <<>> /\ object_list' = NULL
               ELSE objects1 = objects /\ heap' = heap
            /\ object_template_list' =
                 IF last'.op = "destroy_all_templates" THEN <<>> ELSE object_template_list
            /\ texture_list' =
                 IF last'.op = "destroy_all_textures" THEN <<>> ELSE texture_list
            /\ font_list' =
                 IF last'.op = "close_all_fonts" THEN <<>> ELSE font_list ]_vars


\* C16: the tracked draw color _color is opaque black (0, 0, 0, 255) in every
\* state, and between calls the draw color of the live engine's renderer
\* equals it, whatever color the shape calls were given.
C16_DrawColorIsRestored ==
  /\ color = [r |-> 0, g |-> 0, b |-> 0, a |-> 255]
  /\ (engine = "live") => renderer_color = color

\* C16's case: draw_rect_thick drew in opaque red and has returned.
C16_Witness ==
  /\ proc = "running" /\ engine = "live"
  /\ last.op = "draw_rect_thick"
  /\ drawn = [r |-> 255, g |-> 0, b |-> 0, a |-> 255]
  /\ renderer_color = [r |-> 0, g |-> 0, b |-> 0, a |-> 255]


\* C17 (as claimed): a destroy_object_by_name call made on a list without
\* freed nodes touches no node after freeing it, so it returns, and it leaves
\* _object_list NULL or pointing at an allocated node.
C17_ByNameTouchesNoFreedNode ==
  [][ (/\ pc = "idle" /\ engine # "null"
       /\ last'.op = "destroy_object_by_name"
       /\ ~Freed(heap, Range(Chain(heap, object_list)))) =>
        /\ ~DestroyObjectByName(heap, object_list, object_list, NULL,
                                last'.name, FALSE).uaf
        /\ proc' = "running"
        /\ object_list' = NULL \/ heap'[object_list'].alloc ]_vars


\* An iteration of a live engine's loop has polled a quit event.
QuitPolled ==
  /\ proc = "running" /\ pc # "idle" /\ engine = "live"
  /\ \E i \in DOMAIN frame.drained : frame.drained[i] = "quit"

\* C18 (as claimed): once an iteration has polled a quit event, engine_run
\* finishes that iteration (rest of the drain, update, clear, draw if
\* supplied, present, pacing), starts no other one, and returns.
C18_QuitEndsTheRun ==
  /\ [][ QuitPolled =>
           /\ proc' = "running"
           /\ (pc = "test") =>
                (pc' = "idle" /\ frame.steps = Expected(cb.draw)) ]_vars
  /\ QuitPolled ~> (proc = "running" /\ pc = "idle")

\* The same for an engine whose fps is not 0.
C18_QuitEndsTheRunUnlessFpsIsZero ==
  /\ [][ (QuitPolled /\ E.fps # 0) =>
           /\ proc' = "running"
           /\ (pc = "test") =>
                (pc' = "idle" /\ frame.steps = Expected(cb.draw)) ]_vars
  /\ (QuitPolled /\ E.fps # 0) ~> (proc = "running" /\ pc = "idle")


\* C19 (as claimed): the buffer allocated for the stored copy of a name by
\* load_texture, create_object, create_object_template or load_font holds at
\* least length(name) + 1 bytes, so strcpy writes no byte past its end.
C19_NameCopyFits ==
  /\ namebuf.written <= namebuf.size
  /\ (last.op \in {"load_texture", "create_object", "instantiate_object",
                   "create_object_template", "load_font"}
      /\ namebuf.size > 0) => namebuf.size >= StrLen(last.name) + 1

====
